---- MODULE Spec2Model ----
(***************************************************************************)
(* Bounded caches of package cache: the recency index (caches.go), the     *)
(* write-only-touches cache LRW (lrw.go) and the read-touches cache LRU.   *)
(***************************************************************************)
EXTENDS Integers, Sequences, FiniteSets, TLC

(* ---------------------------------------------------------------------- *)
(* Bounds of the model                                                     *)
(* ---------------------------------------------------------------------- *)
MaxKey == 1
MaxScriptKey == 2
MaxTime == 2
NumProcs == 2
MaxSizeArg == 2
MaxAgeArg == 1

(* Zero values of the key type and of the value type (var zero K).         *)
ZeroKey == 0
ZeroVal == 0
(* The zero time.Time lies far before every reading of the clock.          *)
ZeroTime == -1000000
(* First reading of the clock.                                             *)
StartTime == 1

Keys == ZeroKey..MaxKey
(* Keys of the scripted runs and of the caches given to the eviction      *)
(* procedure                                                               *)
ScriptKeys == ZeroKey..MaxScriptKey
(* The code never inspects a value: the zero value and one other value     *)
Vals == {ZeroVal, 1}
Times == StartTime..MaxTime
SizeArgs == -1..MaxSizeArg
AgeArgs == -1..MaxAgeArg

IncorrectlySpecified == "Incorrectly specified cache"
NoError == "nil"
NoCache == [nil |-> TRUE]

(* ---------------------------------------------------------------------- *)
(* Go maps                                                                 *)
(* ---------------------------------------------------------------------- *)
EmptyMap == <<>>
MapLen(f) == Cardinality(DOMAIN f)
MapPut(f, k, v) == [x \in (DOMAIN f) \cup {k} |-> IF x = k THEN v ELSE f[x]]
MapDelete(f, k) == [x \in (DOMAIN f) \ {k} |-> f[x]]

(* ---------------------------------------------------------------------- *)
(* caches.go                                                               *)
(* ---------------------------------------------------------------------- *)
cacheKey(p, n, t) == [prev |-> p, next |-> n, timestamp |-> t]
ZeroEntry == cacheKey(ZeroKey, ZeroKey, ZeroTime)
(* ctm.m[k]: a missing key reads as the zero cacheKey                      *)
EntryAt(f, k) == IF k \in DOMAIN f THEN f[k] ELSE ZeroEntry

newCacheTimeMap == [m |-> EmptyMap, first |-> ZeroKey, last |-> ZeroKey]

TouchEmpty(ctm, k, t) ==
    [m |-> MapPut(ctm.m, k, cacheKey(k, k, t)), first |-> k, last |-> k]

TouchNew(ctm, k, t) ==
    LET entry == cacheKey(k, ctm.first, t)
        first == [EntryAt(ctm.m, ctm.first) EXCEPT !.prev = k]
        m1 == MapPut(ctm.m, ctm.first, first)
        m2 == MapPut(m1, k, entry)
    IN [m |-> m2, first |-> k, last |-> ctm.last]

TouchFirst(ctm, k, t) ==
    LET entry == [EntryAt(ctm.m, k) EXCEPT !.timestamp = t]
    IN [ctm EXCEPT !.m = MapPut(ctm.m, k, entry)]

(* Variant of the tail case that refreshes the timestamp where the key is  *)
TouchLast_InPlace(ctm, k, t) ==
    LET entry == [EntryAt(ctm.m, k) EXCEPT !.timestamp = t]
    IN [ctm EXCEPT !.m = MapPut(ctm.m, k, entry)]

(* Variant of the tail case that leaves the next link of the new tail      *)
TouchLast_NoTailLink(ctm, k, t) ==
    LET entry0 == EntryAt(ctm.m, k)
        newLastKey == entry0.prev
        entry == cacheKey(k, ctm.first, t)
        oldFirst == [EntryAt(ctm.m, ctm.first) EXCEPT !.prev = k]
        m1 == MapPut(ctm.m, ctm.first, oldFirst)
        m2 == MapPut(m1, k, entry)
    IN [m |-> m2, first |-> k, last |-> newLastKey]

TouchLast(ctm, k, t) ==
    LET entry0 == EntryAt(ctm.m, k)
        newLastKey == entry0.prev
        entry == cacheKey(k, ctm.first, t)
        oldFirst == [EntryAt(ctm.m, ctm.first) EXCEPT !.prev = k]
        m1 == MapPut(ctm.m, ctm.first, oldFirst)
        m2 == MapPut(m1, k, entry)
        newLast == [EntryAt(m2, newLastKey) EXCEPT !.next = newLastKey]
        m3 == MapPut(m2, newLastKey, newLast)
    IN [m |-> m3, first |-> k, last |-> newLastKey]

(* Variant of the default case that does not splice the neighbours         *)
TouchInterior_NoSplice(ctm, k, t) ==
    LET entry == cacheKey(k, ctm.first, t)
        oldFirst == [EntryAt(ctm.m, ctm.first) EXCEPT !.prev = k]
        m3 == MapPut(ctm.m, ctm.first, oldFirst)
        m4 == MapPut(m3, k, entry)
    IN [m |-> m4, first |-> k, last |-> ctm.last]

TouchInterior(ctm, k, t) ==
    LET entry0 == EntryAt(ctm.m, k)
        oldPrev == [EntryAt(ctm.m, entry0.prev) EXCEPT !.next = entry0.next]
        oldNext == [EntryAt(ctm.m, entry0.next) EXCEPT !.prev = entry0.prev]
        m1 == MapPut(ctm.m, entry0.prev, oldPrev)
        m2 == MapPut(m1, entry0.next, oldNext)
        entry == cacheKey(k, ctm.first, t)
        oldFirst == [EntryAt(m2, ctm.first) EXCEPT !.prev = k]
        m3 == MapPut(m2, ctm.first, oldFirst)
        m4 == MapPut(m3, k, entry)
    IN [m |-> m4, first |-> k, last |-> ctm.last]

(* Update (or insert) time for a key                                       *)
updateTimeMap(ctm, k, t) ==
    IF MapLen(ctm.m) = 0 THEN TouchEmpty(ctm, k, t)
    ELSE IF k \notin DOMAIN ctm.m THEN TouchNew(ctm, k, t)
    ELSE IF ctm.first = k THEN TouchFirst(ctm, k, t)
    ELSE IF ctm.last = k THEN TouchLast(ctm, k, t)
    ELSE TouchInterior(ctm, k, t)

(* Variant of removeOldest that unlinks the head of the list               *)
removeOldest_Newest(ctm) ==
    IF MapLen(ctm.m) = 0
    THEN [ctm |-> [ctm EXCEPT !.first = ZeroKey, !.last = ZeroKey],
          key |-> ZeroKey]
    ELSE LET newest == ctm.first
             newEntry == EntryAt(ctm.m, newest)
             newNewest == newEntry.next
             newNewEntry == [EntryAt(ctm.m, newNewest) EXCEPT !.prev = newNewest]
             m1 == MapPut(ctm.m, newNewest, newNewEntry)
             m2 == MapDelete(m1, newest)
         IN [ctm |-> IF MapLen(m2) = 0
                     THEN [m |-> m2, first |-> ZeroKey, last |-> ZeroKey]
                     ELSE [m |-> m2, first |-> newNewest, last |-> ctm.last],
             key |-> newest]

(* Variant of removeOldest that leaves the next link of the new last key   *)
(* as it was                                                               *)
removeOldest_NoRelink(ctm) ==
    IF MapLen(ctm.m) = 0
    THEN [ctm |-> [ctm EXCEPT !.first = ZeroKey, !.last = ZeroKey],
          key |-> ZeroKey]
    ELSE LET oldest == ctm.last
             oldEntry == EntryAt(ctm.m, oldest)
             newOldest == oldEntry.prev
             m2 == MapDelete(ctm.m, oldest)
         IN [ctm |-> IF MapLen(m2) = 0
                     THEN [m |-> m2, first |-> ZeroKey, last |-> ZeroKey]
                     ELSE [m |-> m2, first |-> ctm.first, last |-> newOldest],
             key |-> oldest]

(* Remove the oldest key; result: the new index and the key removed        *)
removeOldest(ctm) ==
    IF MapLen(ctm.m) = 0
    THEN [ctm |-> [ctm EXCEPT !.first = ZeroKey, !.last = ZeroKey],
          key |-> ZeroKey]
    ELSE LET oldest == ctm.last
             oldEntry == EntryAt(ctm.m, oldest)
             newOldest == oldEntry.prev
             newOldEntry == [EntryAt(ctm.m, newOldest) EXCEPT !.next = newOldest]
             m1 == MapPut(ctm.m, newOldest, newOldEntry)
             m2 == MapDelete(m1, oldest)
         IN [ctm |-> IF MapLen(m2) = 0
                     THEN [m |-> m2, first |-> ZeroKey, last |-> ZeroKey]
                     ELSE [m |-> m2, first |-> ctm.first, last |-> newOldest],
             key |-> oldest]

(* now.Sub(t)                                                              *)
Sub(now, t) == now - t

sinceOldest(ctm, now) ==
    IF MapLen(ctm.m) = 0 THEN 0
    ELSE Sub(now, EntryAt(ctm.m, ctm.last).timestamp)

(* ---------------------------------------------------------------------- *)
(* lrw.go: the write-only-touches cache                                   *)
(* ---------------------------------------------------------------------- *)
(* Variant of NewLRWCache that rejects when either bound is unbounded      *)
NewLRWCache_Or(maxSize, maxAge) ==
    IF (maxSize < 1) \/ (maxAge = 0)
    THEN [cache |-> NoCache, err |-> IncorrectlySpecified]
    ELSE [cache |-> [m |-> EmptyMap, keys |-> newCacheTimeMap,
                     maxAge |-> maxAge, maxSize |-> maxSize],
          err |-> NoError]

NewLRWCache(maxSize, maxAge) ==
    IF (maxSize < 1) /\ (maxAge = 0)
    THEN [cache |-> NoCache, err |-> IncorrectlySpecified]
    ELSE [cache |-> [m |-> EmptyMap, keys |-> newCacheTimeMap,
                     maxAge |-> maxAge, maxSize |-> maxSize],
          err |-> NoError]

(* Variant of the age loop body that keeps an entry of age exactly maxAge  *)
lrwAgeIter_Exclusive(lrw, now) ==
    IF sinceOldest(lrw.keys, now) <= lrw.maxAge
    THEN [cache |-> lrw, done |-> TRUE, drop |-> <<>>]
    ELSE LET r == removeOldest(lrw.keys)
             c == [lrw EXCEPT !.keys = r.ctm, !.m = MapDelete(lrw.m, r.key)]
         IN [cache |-> c, done |-> (MapLen(c.m) = 0), drop |-> <<r.key>>]

(* One evaluation of the condition of the age loop and, if it holds, one   *)
(* pass through its body: the cache afterwards, the loop's flag, and the   *)
(* key removeOldest returned (drop, empty when the body did not run).      *)
lrwAgeIter(lrw, now) ==
    IF sinceOldest(lrw.keys, now) < lrw.maxAge
    THEN [cache |-> lrw, done |-> TRUE, drop |-> <<>>]
    ELSE LET r == removeOldest(lrw.keys)
             c == [lrw EXCEPT !.keys = r.ctm, !.m = MapDelete(lrw.m, r.key)]
         IN [cache |-> c, done |-> (MapLen(c.m) = 0), drop |-> <<r.key>>]

(* The age loop: the cache afterwards and the keys dropped, in order       *)
RECURSIVE lrwAgeLoop(_, _)
lrwAgeLoop(lrw, now) ==
    LET r == lrwAgeIter(lrw, now)
    IN IF r.done THEN [cache |-> r.cache, drops |-> r.drop]
       ELSE LET rest == lrwAgeLoop(r.cache, now)
            IN [cache |-> rest.cache, drops |-> r.drop \o rest.drops]

(* One pass through the body of the size loop                              *)
lrwSizeIter(lrw) ==
    LET r == removeOldest(lrw.keys)
    IN [cache |-> [lrw EXCEPT !.keys = r.ctm, !.m = MapDelete(lrw.m, r.key)],
        drop |-> <<r.key>>]

(* Variants of the size loop: one entry too many, one entry too few       *)
RECURSIVE lrwSizeLoop_OffByOne(_)
lrwSizeLoop_OffByOne(lrw) ==
    IF MapLen(lrw.m) > lrw.maxSize + 1
    THEN LET r == lrwSizeIter(lrw)
             rest == lrwSizeLoop_OffByOne(r.cache)
         IN [cache |-> rest.cache, drops |-> r.drop \o rest.drops]
    ELSE [cache |-> lrw, drops |-> <<>>]

RECURSIVE lrwSizeLoop_Geq(_)
lrwSizeLoop_Geq(lrw) ==
    IF MapLen(lrw.m) >= lrw.maxSize
    THEN LET r == lrwSizeIter(lrw)
             rest == lrwSizeLoop_Geq(r.cache)
         IN [cache |-> rest.cache, drops |-> r.drop \o rest.drops]
    ELSE [cache |-> lrw, drops |-> <<>>]

RECURSIVE lrwSizeLoop(_)
lrwSizeLoop(lrw) ==
    IF MapLen(lrw.m) > lrw.maxSize
    THEN LET r == lrwSizeIter(lrw)
             rest == lrwSizeLoop(r.cache)
         IN [cache |-> rest.cache, drops |-> r.drop \o rest.drops]
    ELSE [cache |-> lrw, drops |-> <<>>]

lrwAgePass(lrw, now) ==
    IF lrw.maxAge > 0 THEN lrwAgeLoop(lrw, now)
    ELSE [cache |-> lrw, drops |-> <<>>]

lrwSizePass(lrw) ==
    IF lrw.maxSize > 0 THEN lrwSizeLoop(lrw)
    ELSE [cache |-> lrw, drops |-> <<>>]

(* Variant of lrwAge that leaves out the size pass                         *)
lrwAge_AgeOnly(lrw, now) == lrwAgePass(lrw, now)

(* Age out oldest entries: the cache afterwards and the keys dropped       *)
lrwAge(lrw, now) ==
    LET a == lrwAgePass(lrw, now)
        z == lrwSizePass(a.cache)
    IN [cache |-> z.cache, drops |-> a.drops \o z.drops]

(* Variant of SetLRW that does not record the write in the index           *)
SetLRW_NoTouch(lrw, k, v, now) ==
    LET c1 == [lrw EXCEPT !.m = MapPut(lrw.m, k, v)]
    IN lrwAge(c1, now)

SetLRW(lrw, k, v, now) ==
    LET c1 == [lrw EXCEPT !.m = MapPut(lrw.m, k, v)]
        c2 == [c1 EXCEPT !.keys = updateTimeMap(c1.keys, k, now)]
    IN lrwAge(c2, now)

(* Variant of GetLRW that counts a read as usage                           *)
GetLRW_Touches(lrw, k, now) ==
    LET c == [lrw EXCEPT !.keys = updateTimeMap(lrw.keys, k, now)]
    IN [cache |-> c,
        rv |-> IF k \in DOMAIN c.m THEN c.m[k] ELSE ZeroVal,
        ok |-> k \in DOMAIN c.m]

GetLRW(lrw, k, now) ==
    [cache |-> lrw,
     rv |-> IF k \in DOMAIN lrw.m THEN lrw.m[k] ELSE ZeroVal,
     ok |-> k \in DOMAIN lrw.m]

(* ---------------------------------------------------------------------- *)
(* The read-touches cache LRU                                             *)
(* ---------------------------------------------------------------------- *)
NewLRUCache(maxSize, maxAge) ==
    IF (maxSize < 1) /\ (maxAge = 0)
    THEN [cache |-> NoCache, err |-> IncorrectlySpecified]
    ELSE [cache |-> [m |-> EmptyMap, keys |-> newCacheTimeMap,
                     maxAge |-> maxAge, maxSize |-> maxSize],
          err |-> NoError]

(* One evaluation of the condition of the age loop and, if it holds, one   *)
(* pass through its body: the cache afterwards, the loop's flag, and the   *)
(* key removeOldest returned (drop, empty when the body did not run).      *)
lruAgeIter(lru, now) ==
    IF sinceOldest(lru.keys, now) < lru.maxAge
    THEN [cache |-> lru, done |-> TRUE, drop |-> <<>>]
    ELSE LET r == removeOldest(lru.keys)
             c == [lru EXCEPT !.keys = r.ctm, !.m = MapDelete(lru.m, r.key)]
         IN [cache |-> c, done |-> (MapLen(c.m) = 0), drop |-> <<r.key>>]

(* The age loop: the cache afterwards and the keys dropped, in order       *)
RECURSIVE lruAgeLoop(_, _)
lruAgeLoop(lru, now) ==
    LET r == lruAgeIter(lru, now)
    IN IF r.done THEN [cache |-> r.cache, drops |-> r.drop]
       ELSE LET rest == lruAgeLoop(r.cache, now)
            IN [cache |-> rest.cache, drops |-> r.drop \o rest.drops]

(* One pass through the body of the size loop                              *)
lruSizeIter(lru) ==
    LET r == removeOldest(lru.keys)
    IN [cache |-> [lru EXCEPT !.keys = r.ctm, !.m = MapDelete(lru.m, r.key)],
        drop |-> <<r.key>>]

(* Variant of the size loop that counts the keys of the index              *)
RECURSIVE lruSizeLoop_ByIndex(_)
lruSizeLoop_ByIndex(lru) ==
    IF MapLen(lru.keys.m) > lru.maxSize
    THEN LET r == lruSizeIter(lru)
             rest == lruSizeLoop_ByIndex(r.cache)
         IN [cache |-> rest.cache, drops |-> r.drop \o rest.drops]
    ELSE [cache |-> lru, drops |-> <<>>]

RECURSIVE lruSizeLoop(_)
lruSizeLoop(lru) ==
    IF MapLen(lru.m) > lru.maxSize
    THEN LET r == lruSizeIter(lru)
             rest == lruSizeLoop(r.cache)
         IN [cache |-> rest.cache, drops |-> r.drop \o rest.drops]
    ELSE [cache |-> lru, drops |-> <<>>]

lruAgePass(lru, now) ==
    IF lru.maxAge > 0 THEN lruAgeLoop(lru, now)
    ELSE [cache |-> lru, drops |-> <<>>]

lruSizePass(lru) ==
    IF lru.maxSize > 0 THEN lruSizeLoop(lru)
    ELSE [cache |-> lru, drops |-> <<>>]

(* Age out oldest entries: the cache afterwards and the keys dropped       *)
lruAge(lru, now) ==
    LET a == lruAgePass(lru, now)
        z == lruSizePass(a.cache)
    IN [cache |-> z.cache, drops |-> a.drops \o z.drops]

(* Variant of SetLRU that does not record the write in the index           *)
SetLRU_NoTouch(lru, k, v, now) ==
    LET c1 == [lru EXCEPT !.m = MapPut(lru.m, k, v)]
    IN lruAge(c1, now)

SetLRU(lru, k, v, now) ==
    LET c1 == [lru EXCEPT !.m = MapPut(lru.m, k, v)]
        c2 == [c1 EXCEPT !.keys = updateTimeMap(c1.keys, k, now)]
    IN lruAge(c2, now)

(* Variant of GetLRU that does not count a read as usage                   *)
GetLRU_NoTouch(lru, k, now) ==
    [cache |-> lru,
     rv |-> IF k \in DOMAIN lru.m THEN lru.m[k] ELSE ZeroVal,
     ok |-> k \in DOMAIN lru.m]

(* Variant of GetLRU that counts a read as usage only when the key has a   *)
(* value                                                                   *)
GetLRU_IfPresent(lru, k, now) ==
    LET c == IF k \in DOMAIN lru.m
             THEN [lru EXCEPT !.keys = updateTimeMap(lru.keys, k, now)]
             ELSE lru
    IN [cache |-> c,
        rv |-> IF k \in DOMAIN c.m THEN c.m[k] ELSE ZeroVal,
        ok |-> k \in DOMAIN c.m]

GetLRU(lru, k, now) ==
    LET c == [lru EXCEPT !.keys = updateTimeMap(lru.keys, k, now)]
    IN [cache |-> c,
        rv |-> IF k \in DOMAIN c.m THEN c.m[k] ELSE ZeroVal,
        ok |-> k \in DOMAIN c.m]

(* ---------------------------------------------------------------------- *)
(* State                                                                   *)
(* ---------------------------------------------------------------------- *)
VARIABLES
    variant,   \* "LRW" or "LRU": which cache type the instance is
    cache,     \* the instance {m, keys, maxSize, maxAge}, NoCache if none
    err,       \* the error the constructor returned
    clock,     \* the reading time.Now() gives
    last,      \* the last call: its arguments, the time it ran, its results
               \* (for Set: the keys removeOldest returned, in order, and
               \* the keys removed from the values)
    hist,      \* the Set/Get calls made so far (recorded by the scenario runs)
    pc,        \* per goroutine: where it is in its call
    lock,      \* lru.lock / lrw.lock: the goroutine holding it, or Unlocked
    loc,       \* per goroutine: arguments and local variables of its call
    seq,       \* the cache as the last call that returned left it
    index,     \* a cacheTimeMap used on its own (caches.go)
    twin,      \* a second LRU instance, given the same calls as cache
    helper,    \* backoff: the Exponential helper
    call,      \* backoff: the frame of CallWithHelper and what f has done
    ch,        \* maputils: the channel made by Channel
    send,      \* maputils: the frame of Send
    recv       \* maputils: the frame of Receive

(* What the runs of package cache leave alone                              *)
apart == <<index, twin, helper, call, ch, send, recv>>

vars == <<variant, cache, err, clock, last, hist, pc, lock, loc, seq, apart>>
goroutineVars == <<pc, lock, loc, seq>>

NoHelper == [nil |-> TRUE]
NoChan == [nil |-> TRUE]
NoFrame == [pc |-> "none"]

(* No index on its own, no twin, no backoff call and no transmission       *)
ApartIdle ==
    /\ index = newCacheTimeMap
    /\ twin = NoCache
    /\ helper = NoHelper
    /\ call = NoFrame
    /\ ch = NoChan
    /\ send = NoFrame
    /\ recv = NoFrame

Procs == 1..NumProcs
Unlocked == 0
NoLocals == [op |-> "none", k |-> ZeroKey, v |-> ZeroVal, now |-> ZeroTime,
             rv |-> ZeroVal, ok |-> FALSE]

Variants == {"LRW", "LRU"}

New(var, maxSize, maxAge) ==
    IF var = "LRW" THEN NewLRWCache(maxSize, maxAge)
    ELSE NewLRUCache(maxSize, maxAge)

Init ==
    \E var \in Variants, maxSize \in SizeArgs, maxAge \in AgeArgs :
        LET r == New(var, maxSize, maxAge)
        IN /\ variant = var
           /\ cache = r.cache
           /\ err = r.err
           /\ clock = StartTime
           /\ last = [op |-> "New", maxSize |-> maxSize, maxAge |-> maxAge]
           /\ hist = <<>>
           /\ pc = [p \in Procs |-> "idle"]
           /\ lock = Unlocked
           /\ loc = [p \in Procs |-> NoLocals]
           /\ seq = r.cache
           /\ ApartIdle

(* The clock advances between calls and never goes back.                   *)
Tick ==
    /\ clock < MaxTime
    /\ clock' = clock + 1
    /\ UNCHANGED <<apart, variant, cache, err, last, hist, goroutineVars>>

DoSetLRW(k, v) ==
    /\ err = NoError /\ variant = "LRW"
    /\ \E r \in {SetLRW(cache, k, v, clock)} :
          /\ cache' = r.cache
          /\ last' = [op |-> "Set", k |-> k, v |-> v, now |-> clock,
                      drops |-> r.drops,
                      evicted |-> ((DOMAIN cache.m) \cup {k}) \ DOMAIN r.cache.m]
    /\ UNCHANGED <<apart, variant, err, clock, goroutineVars>>

DoGetLRW(k) ==
    /\ err = NoError /\ variant = "LRW"
    /\ \E r \in {GetLRW(cache, k, clock)} :
          /\ cache' = r.cache
          /\ last' = [op |-> "Get", k |-> k, now |-> clock,
                      rv |-> r.rv, ok |-> r.ok]
    /\ UNCHANGED <<apart, variant, err, clock, goroutineVars>>

DoSetLRU(k, v) ==
    /\ err = NoError /\ variant = "LRU"
    /\ \E r \in {SetLRU(cache, k, v, clock)} :
          /\ cache' = r.cache
          /\ last' = [op |-> "Set", k |-> k, v |-> v, now |-> clock,
                      drops |-> r.drops,
                      evicted |-> ((DOMAIN cache.m) \cup {k}) \ DOMAIN r.cache.m]
    /\ UNCHANGED <<apart, variant, err, clock, goroutineVars>>

DoGetLRU(k) ==
    /\ err = NoError /\ variant = "LRU"
    /\ \E r \in {GetLRU(cache, k, clock)} :
          /\ cache' = r.cache
          /\ last' = [op |-> "Get", k |-> k, now |-> clock,
                      rv |-> r.rv, ok |-> r.ok]
    /\ UNCHANGED <<apart, variant, err, clock, goroutineVars>>

CallSetLRW(k, v) == DoSetLRW(k, v) /\ UNCHANGED hist
CallGetLRW(k) == DoGetLRW(k) /\ UNCHANGED hist
CallSetLRU(k, v) == DoSetLRU(k, v) /\ UNCHANGED hist
CallGetLRU(k) == DoGetLRU(k) /\ UNCHANGED hist

Next ==
    \/ Tick
    \/ \E k \in Keys, v \in Vals : CallSetLRW(k, v)
    \/ \E k \in Keys : CallGetLRW(k)
    \/ \E k \in Keys, v \in Vals : CallSetLRU(k, v)
    \/ \E k \in Keys : CallGetLRU(k)

(* Any sequence of Set and Get calls on one instance, one call at a time   *)
(* (the instance lock serialises them), under a non-decreasing clock.      *)
Spec == Init /\ [][Next]_vars

(* ---------------------------------------------------------------------- *)
(* Properties of the sequential runs                                       *)
(* ---------------------------------------------------------------------- *)
Age(k) == Sub(last.now, cache.keys.m[k].timestamp)

(* C1: with maxSize > 0, after every Set (in any sequence of Set and Get   *)
(* calls, either variant) the values hold at most maxSize keys.            *)
C1_SizeBound ==
    (err = NoError /\ last.op = "Set" /\ cache.maxSize > 0)
        => MapLen(cache.m) <= cache.maxSize

C1_Witness ==
    /\ err = NoError /\ last.op = "Set" /\ cache.maxSize = 1
    /\ MapLen(cache.m) = 1
    /\ last.evicted # {} /\ last.k \notin last.evicted

(* C2: with maxAge > 0, after every call, Set or Get, every entry of the   *)
(* values is younger than maxAge at the time of the call.  Get runs no     *)
(* eviction, so this fails after a Get.                                    *)
C2_AgeBoundAfterEveryCall ==
    (err = NoError /\ last.op \in {"Set", "Get"} /\ cache.maxAge > 0)
        => \A k \in DOMAIN cache.m :
               k \in DOMAIN cache.keys.m /\ Age(k) < cache.maxAge

(* C3: the constructor returns the configuration error, and no cache,      *)
(* exactly when maxSize <= 0 and maxAge = 0; otherwise it returns no error *)
(* and a cache whose values and index are empty.                           *)
C3_Constructor ==
    last.op = "New" =>
        IF last.maxSize <= 0 /\ last.maxAge = 0
        THEN err = IncorrectlySpecified /\ cache = NoCache
        ELSE /\ err = NoError
             /\ cache # NoCache
             /\ cache.m = EmptyMap
             /\ cache.keys.m = EmptyMap
             /\ cache.maxSize = last.maxSize
             /\ cache.maxAge = last.maxAge

C3_Witness ==
    /\ last.op = "New" /\ last.maxSize <= 0 /\ last.maxAge # 0
    /\ err = NoError /\ cache # NoCache

(* C4: Set(k, v) leaves values[k] = v; a Get(k) made as the next call      *)
(* returns (v, true); a Get of a key not in the values returns             *)
(* (zero value, false).                                                    *)
C4_SetThenGet ==
    [][ /\ (last'.op = "Set" =>
              /\ last'.k \in DOMAIN cache'.m
              /\ cache'.m[last'.k] = last'.v)
        /\ (last.op = "Set" /\ last'.op = "Get" /\ last'.k = last.k =>
              /\ last'.rv = last.v
              /\ last'.ok)
        /\ (last'.op = "Get" /\ last'.k \notin DOMAIN cache'.m =>
              /\ last'.rv = ZeroVal
              /\ ~last'.ok) ]_vars

C4_Witness ==
    /\ last.op = "Set" /\ last.evicted # {}
    /\ last.k \in DOMAIN cache.m /\ cache.m[last.k] = last.v
    /\ last.v # ZeroVal

(* C5: in the write-only-touches variant a Get, of a present or an absent  *)
(* key, changes nothing of the cache: values, index keys, first, last,     *)
(* links and timestamps.                                                   *)
C5_GetLRWFrame ==
    [][ (variant = "LRW" /\ last'.op = "Get") => cache' = cache ]_vars

C5_Witness ==
    /\ variant = "LRW" /\ last.op = "Get" /\ last.ok
    /\ MapLen(cache.keys.m) >= 2
    /\ cache.keys.first # last.k
    /\ cache.keys.m[last.k].timestamp < last.now

(* ---------------------------------------------------------------------- *)
(* The scenario Set(A), Set(B), Get(A), Set(C) on a cache with maxSize = 2 *)
(* ---------------------------------------------------------------------- *)
Script(a, b, c) == << <<"Set", a>>, <<"Set", b>>, <<"Get", a>>, <<"Set", c>> >>
Scripts ==
    {Script(a, b, c) : <<a, b, c>> \in
        {t \in ScriptKeys \X ScriptKeys \X ScriptKeys :
            t[1] # t[2] /\ t[1] # t[3] /\ t[2] # t[3]}}
OnScript(h) ==
    \E sc \in Scripts : Len(h) <= Len(sc) /\ SubSeq(sc, 1, Len(h)) = h

InitScenario == Init /\ err = NoError /\ cache.maxSize = 2

ScenarioSet(k, v) ==
    /\ OnScript(Append(hist, <<"Set", k>>))
    /\ (DoSetLRW(k, v) \/ DoSetLRU(k, v))
    /\ hist' = Append(hist, <<"Set", k>>)

ScenarioGet(k) ==
    /\ OnScript(Append(hist, <<"Get", k>>))
    /\ (DoGetLRW(k) \/ DoGetLRU(k))
    /\ hist' = Append(hist, <<"Get", k>>)

NextScenario ==
    \/ Tick
    \/ \E k \in ScriptKeys, v \in Vals : ScenarioSet(k, v)
    \/ \E k \in ScriptKeys : ScenarioGet(k)

SpecScenario == InitScenario /\ [][NextScenario]_vars

(* No entry can have reached maxAge by the time of the last call.          *)
NoAgeOut == cache.maxAge <= 0 \/ Sub(last.now, StartTime) < cache.maxAge

(* C6: in the read-touches variant a Get of a present key makes it the     *)
(* head of the index with timestamp now; with maxSize = 2 (and no entry    *)
(* reaching maxAge) Set(A), Set(B), Get(A), Set(C) leaves exactly {A, C}   *)
(* in the read-touches variant and exactly {B, C} in the write-only one.   *)
C6_ReadCountsAsUsage ==
    /\ (variant = "LRU" /\ last.op = "Get" /\ last.ok) =>
          /\ cache.keys.first = last.k
          /\ cache.keys.m[last.k].timestamp = last.now
    /\ (Len(hist) = 4 /\ NoAgeOut) =>
          DOMAIN cache.m = IF variant = "LRU"
                           THEN {hist[1][2], hist[4][2]}
                           ELSE {hist[2][2], hist[4][2]}

C6_Witness ==
    /\ Len(hist) = 4 /\ variant = "LRU" /\ NoAgeOut
    /\ last.now > StartTime
    /\ last.evicted = {hist[2][2]}
    /\ DOMAIN cache.m = {hist[1][2], hist[4][2]}
    /\ cache.keys.m[hist[1][2]].timestamp < last.now

(* ---------------------------------------------------------------------- *)
(* The eviction procedure called on a given cache, as TestAgeLRW calls it  *)
(* ---------------------------------------------------------------------- *)
Min(a, b) == IF a < b THEN a ELSE b

(* Sequences of distinct keys, most recently touched first                 *)
RECURSIVE Orders(_)
Orders(n) ==
    IF n = 0 THEN {<<>>}
    ELSE {Append(o, k) : <<o, k>> \in
             {t \in Orders(n - 1) \X ScriptKeys :
                 \A i \in 1..Len(t[1]) : t[1][i] # t[2]}}

(* Timestamps that do not increase from the head to the tail               *)
Stamps(n) ==
    {ts \in [1..n -> Times] : \A i \in 1..n : \A j \in i..n : ts[i] >= ts[j]}

(* The index holding the keys of o in that order with the timestamps ts    *)
IndexOf(o, ts) ==
    IF Len(o) = 0 THEN newCacheTimeMap
    ELSE [m |-> [k \in {o[i] : i \in 1..Len(o)} |->
                    LET i == CHOOSE j \in 1..Len(o) : o[j] = k
                    IN cacheKey(IF i = 1 THEN k ELSE o[i - 1],
                                IF i = Len(o) THEN k ELSE o[i + 1],
                                ts[i])],
          first |-> o[1],
          last |-> o[Len(o)]]

(* The keys of an index read from first along the next links               *)
RECURSIVE WalkNext(_, _, _)
WalkNext(ctm, k, n) ==
    IF n = 0 \/ k \notin DOMAIN ctm.m THEN <<>>
    ELSE IF ctm.m[k].next = k THEN <<k>>
    ELSE <<k>> \o WalkNext(ctm, ctm.m[k].next, n - 1)

Order(ctm) == WalkNext(ctm, ctm.first, MapLen(ctm.m))

InitAge ==
    \E var \in Variants, maxSize \in SizeArgs, maxAge \in AgeArgs,
       n \in 0..Cardinality(ScriptKeys) :
      \E o \in Orders(n), ts \in Stamps(n) :
        /\ New(var, maxSize, maxAge).err = NoError
        /\ variant = var
        /\ cache = [m |-> [k \in {o[i] : i \in 1..n} |-> 1],
                    keys |-> IndexOf(o, ts),
                    maxAge |-> maxAge, maxSize |-> maxSize]
        /\ err = NoError
        /\ clock = IF n = 0 THEN StartTime ELSE ts[1]
        /\ last = [op |-> "New", maxSize |-> maxSize, maxAge |-> maxAge]
        /\ hist = <<>>
        /\ pc = [p \in Procs |-> "idle"]
        /\ lock = Unlocked
        /\ loc = [p \in Procs |-> NoLocals]
        /\ seq = cache
        /\ ApartIdle

CallAgeLRW ==
    /\ variant = "LRW"
    /\ cache' = lrwAge(cache, clock).cache
    /\ last' = [op |-> "Age", now |-> clock, pre |-> cache]
    /\ UNCHANGED <<apart, variant, err, clock, hist, goroutineVars>>

CallAgeLRU ==
    /\ variant = "LRU"
    /\ cache' = lruAge(cache, clock).cache
    /\ last' = [op |-> "Age", now |-> clock, pre |-> cache]
    /\ UNCHANGED <<apart, variant, err, clock, hist, goroutineVars>>

NextAge == Tick \/ CallAgeLRW \/ CallAgeLRU

SpecAge == InitAge /\ [][NextAge]_vars

(* The entries of c that are younger than maxAge at time now               *)
Fresh(c, now) ==
    {k \in DOMAIN c.m :
        c.maxAge > 0 => Sub(now, c.keys.m[k].timestamp) < c.maxAge}

Expected(c, now) ==
    IF c.maxSize > 0 THEN Min(c.maxSize, Cardinality(Fresh(c, now)))
    ELSE Cardinality(Fresh(c, now))

(* C8: run at time now on a cache whose index and values hold the same     *)
(* keys, the eviction procedure removes every entry of age >= maxAge (when *)
(* maxAge > 0) and then the oldest entries beyond maxSize (when            *)
(* maxSize > 0): min(maxSize, number of entries of age < maxAge) values    *)
(* are left, and they are the most recently touched entries.               *)
C8_Eviction ==
    (last.op = "Age" /\ DOMAIN last.pre.m = DOMAIN last.pre.keys.m) =>
        LET pre == last.pre
            n == Expected(pre, last.now)
        IN /\ DOMAIN cache.m \subseteq Fresh(pre, last.now)
           /\ MapLen(cache.m) = n
           /\ DOMAIN cache.m = {Order(pre.keys)[i] : i \in 1..n}
           /\ \A k \in DOMAIN cache.m : cache.m[k] = pre.m[k]

C8_Witness ==
    /\ last.op = "Age" /\ cache.maxAge > 0 /\ cache.maxSize > 0
    /\ MapLen(last.pre.m) = 3 /\ MapLen(cache.m) = 1
    /\ Cardinality(Fresh(last.pre, last.now)) = 2
    /\ \E k \in DOMAIN last.pre.m :
          Sub(last.now, last.pre.keys.m[k].timestamp) = cache.maxAge

(* ---------------------------------------------------------------------- *)
(* Goroutines calling Set and Get on one instance                          *)
(* ---------------------------------------------------------------------- *)
(* One step per statement of SetLRW/GetLRW/SetLRU/GetLRU; each reads and   *)
(* writes the shared instance as it is at that step.                       *)
CriticalPcs == {"now", "write", "touch", "age", "size", "read", "unlock"}
InCS(p) == pc[p] \in CriticalPcs

AgeIterOf(c, now) ==
    IF variant = "LRW" THEN lrwAgeIter(c, now) ELSE lruAgeIter(c, now)
SizeIterOf(c) ==
    IF variant = "LRW" THEN lrwSizeIter(c) ELSE lruSizeIter(c)

(* The call as one transaction on the cache c                              *)
Atomic(c, l) ==
    IF l.op = "Set"
    THEN [cache |-> IF variant = "LRW" THEN SetLRW(c, l.k, l.v, l.now).cache
                    ELSE SetLRU(c, l.k, l.v, l.now).cache,
          rv |-> ZeroVal, ok |-> FALSE]
    ELSE IF variant = "LRW" THEN GetLRW(c, l.k, l.now)
    ELSE GetLRU(c, l.k, l.now)

(* Both bounds are set, so that both passes of the eviction run.           *)
InitGo == Init /\ err = NoError /\ cache.maxSize = 1 /\ cache.maxAge = 1

(* A goroutine calls Set or Get and reaches lock.Lock()                    *)
StepCall(p) ==
    /\ pc[p] = "idle"
    /\ pc' = [pc EXCEPT ![p] = "lock"]
    /\ UNCHANGED <<apart, variant, cache, err, clock, last, hist, lock, loc, seq>>

(* Variant of lock.Lock() that does not wait for the holder                *)
StepLock_NoWait(p, op, k, v) ==
    /\ pc[p] = "lock"
    /\ lock' = p
    /\ loc' = [loc EXCEPT ![p] = [NoLocals EXCEPT !.op = op, !.k = k, !.v = v]]
    /\ pc' = [pc EXCEPT ![p] =
                 IF op = "Get" /\ variant = "LRW" THEN "read" ELSE "now"]
    /\ UNCHANGED <<apart, variant, cache, err, clock, last, hist, seq>>

(* lock.Lock() returns; op, k, v are the call and its arguments            *)
StepLock(p, op, k, v) ==
    /\ pc[p] = "lock"
    /\ lock = Unlocked
    /\ lock' = p
    /\ loc' = [loc EXCEPT ![p] = [NoLocals EXCEPT !.op = op, !.k = k, !.v = v]]
    /\ pc' = [pc EXCEPT ![p] =
                 IF op = "Get" /\ variant = "LRW" THEN "read" ELSE "now"]
    /\ UNCHANGED <<apart, variant, cache, err, clock, last, hist, seq>>

(* now := time.Now()                                                       *)
StepNow(p) ==
    /\ pc[p] = "now"
    /\ loc' = [loc EXCEPT ![p].now = clock]
    /\ pc' = [pc EXCEPT ![p] = IF loc[p].op = "Set" THEN "write" ELSE "touch"]
    /\ UNCHANGED <<apart, variant, cache, err, clock, last, hist, lock, seq>>

(* m[k] = v                                                                *)
StepWrite(p) ==
    /\ pc[p] = "write"
    /\ cache' = [cache EXCEPT !.m = MapPut(cache.m, loc[p].k, loc[p].v)]
    /\ pc' = [pc EXCEPT ![p] = "touch"]
    /\ UNCHANGED <<apart, variant, err, clock, last, hist, lock, loc, seq>>

(* updateTimeMap(keys, k, now)                                             *)
StepTouch(p) ==
    /\ pc[p] = "touch"
    /\ cache' = [cache EXCEPT
                    !.keys = updateTimeMap(cache.keys, loc[p].k, loc[p].now)]
    /\ pc' = [pc EXCEPT ![p] = IF loc[p].op = "Set" THEN "age" ELSE "read"]
    /\ UNCHANGED <<apart, variant, err, clock, last, hist, lock, loc, seq>>

(* The age pass: its test, or one turn of its loop                         *)
StepAge(p) ==
    /\ pc[p] = "age"
    /\ IF cache.maxAge > 0
       THEN LET r == AgeIterOf(cache, loc[p].now)
            IN /\ cache' = r.cache
               /\ pc' = [pc EXCEPT ![p] = IF r.done THEN "size" ELSE "age"]
       ELSE /\ cache' = cache
            /\ pc' = [pc EXCEPT ![p] = "size"]
    /\ UNCHANGED <<apart, variant, err, clock, last, hist, lock, loc, seq>>

(* The size pass: its test, or one turn of its loop                        *)
StepSize(p) ==
    /\ pc[p] = "size"
    /\ IF cache.maxSize > 0 /\ MapLen(cache.m) > cache.maxSize
       THEN /\ cache' = SizeIterOf(cache).cache
            /\ pc' = pc
       ELSE /\ cache' = cache
            /\ pc' = [pc EXCEPT ![p] = "unlock"]
    /\ UNCHANGED <<apart, variant, err, clock, last, hist, lock, loc, seq>>

(* rv, ok := m[k]                                                          *)
StepRead(p) ==
    /\ pc[p] = "read"
    /\ loc' = [loc EXCEPT
                  ![p].rv = IF loc[p].k \in DOMAIN cache.m
                            THEN cache.m[loc[p].k] ELSE ZeroVal,
                  ![p].ok = loc[p].k \in DOMAIN cache.m]
    /\ pc' = [pc EXCEPT ![p] = "unlock"]
    /\ UNCHANGED <<apart, variant, cache, err, clock, last, hist, lock, seq>>

(* Variant of the return that leaves the lock held                         *)
StepUnlock_NoRelease(p) ==
    /\ pc[p] = "unlock"
    /\ pc' = [pc EXCEPT ![p] = "idle"]
    /\ loc' = [loc EXCEPT ![p] = NoLocals]
    /\ seq' = cache
    /\ UNCHANGED <<apart, variant, cache, err, clock, last, hist, lock>>

(* The deferred lock.Unlock(), and the return                              *)
StepUnlock(p) ==
    /\ pc[p] = "unlock"
    /\ lock' = Unlocked
    /\ pc' = [pc EXCEPT ![p] = "idle"]
    /\ loc' = [loc EXCEPT ![p] = NoLocals]
    /\ seq' = cache
    /\ UNCHANGED <<apart, variant, cache, err, clock, last, hist>>

Locking(p) ==
    \/ \E k \in Keys : StepLock(p, "Set", k, 1)
    \/ \E k \in Keys : StepLock(p, "Get", k, ZeroVal)

Running(p) ==
    \/ StepNow(p)
    \/ StepWrite(p)
    \/ StepTouch(p)
    \/ StepAge(p)
    \/ StepSize(p)
    \/ StepRead(p)
    \/ StepUnlock(p)

NextGo ==
    \/ Tick
    \/ \E p \in Procs : StepCall(p)
    \/ \E p \in Procs : Locking(p)
    \/ \E p \in Procs : Running(p)

SpecGo == InitGo /\ [][NextGo]_vars

(* sync.Mutex hands the lock to a goroutine that keeps waiting for it, and *)
(* a goroutine that holds the lock keeps running.                          *)
SpecGoFair ==
    /\ SpecGo
    /\ \A p \in Procs : SF_vars(Locking(p))
    /\ \A p \in Procs : WF_vars(Running(p))

(* C9: at most one call is between Lock and Unlock, its timestamp is read  *)
(* there (so no entry of the index is younger than it), and the cache and  *)
(* the results of every call are those of the calls run one after the      *)
(* other in the order in which they took the lock.                         *)
C9_Serialised ==
    /\ \A p \in Procs : \A q \in Procs : (InCS(p) /\ InCS(q)) => p = q
    /\ \A p \in Procs : InCS(p) <=> lock = p
    /\ \A p \in Procs :
          (pc[p] \in {"write", "touch", "age", "size"}) =>
              \A k \in DOMAIN cache.keys.m :
                  cache.keys.m[k].timestamp <= loc[p].now
    /\ lock = Unlocked => cache = seq
    /\ \A p \in Procs :
          pc[p] = "unlock" =>
              LET r == Atomic(seq, loc[p])
              IN /\ cache = r.cache
                 /\ loc[p].op = "Get" => (loc[p].rv = r.rv /\ loc[p].ok = r.ok)

C9_Witness ==
    \E p \in Procs : \E q \in Procs :
        /\ pc[p] = "unlock" /\ loc[p].op = "Set" /\ pc[q] = "lock"
        /\ seq # cache /\ DOMAIN seq.m # {} /\ loc[p].k \notin DOMAIN seq.m
        /\ MapLen(cache.m) = 1

(* C10: under fair granting of the lock every call that was started        *)
(* returns, with the lock released: the lock is released on every path and *)
(* both eviction loops terminate.  No call stays pending for ever, which   *)
(* is to say that every goroutine is outside any call again and again.     *)
C10_CallsReturn ==
    \A p \in Procs : []<>(pc[p] = "idle" /\ lock # p)

C10_Witness ==
    \E p \in Procs : \E q \in Procs :
        /\ p # q /\ pc[p] = "lock" /\ pc[q] = "size"
        /\ MapLen(cache.m) > cache.maxSize

(* ---------------------------------------------------------------------- *)
(* Keys read while absent, and the shape of the index between calls        *)
(* ---------------------------------------------------------------------- *)
(* C11: in the read-touches variant a Get of a key that has no value       *)
(* returns the zero value and false and leaves the values as they were,    *)
(* and yet makes the key the head of the index with timestamp now: the     *)
(* index then holds a key that the values do not.                          *)
C11_GetAbsentLRU ==
    [][ (variant = "LRU" /\ last'.op = "Get" /\ clock' = clock
            /\ last'.k \notin DOMAIN cache.m) =>
          /\ last'.rv = ZeroVal /\ ~last'.ok
          /\ cache'.m = cache.m
          /\ DOMAIN cache'.keys.m = (DOMAIN cache.keys.m) \cup {last'.k}
          /\ cache'.keys.first = last'.k
          /\ cache'.keys.m[last'.k].timestamp = last'.now
          /\ last'.k \notin DOMAIN cache'.m ]_vars

(* A Set drops from the index, as its tail, a key that never had a value   *)
C11_Witness ==
    /\ variant = "LRU" /\ last.op = "Set"
    /\ Len(last.drops) = 1 /\ last.evicted = {}
    /\ last.drops[1] \notin DOMAIN cache.keys.m
    /\ DOMAIN cache.m = {last.k}

(* C17 as stated: after any call the walk from first along the next links  *)
(* visits exactly len(m) keys and ends at last.                            *)
C17_IndexSameSizeAsValues ==
    err = NoError =>
        LET o == Order(cache.keys)
        IN /\ Len(o) = MapLen(cache.m)
           /\ Len(o) > 0 => o[Len(o)] = cache.keys.last

(* C17 amended: after any call the walk from first along the next links    *)
(* visits every key of the index once and ends at last, and the index      *)
(* holds every key of the values; in the write-only-touches variant it     *)
(* holds no other key, in the read-touches variant it may (keys read       *)
(* while absent).                                                          *)
C17_IndexCoversValues ==
    err = NoError =>
        LET o == Order(cache.keys)
        IN /\ Len(o) = MapLen(cache.keys.m)
           /\ {o[i] : i \in 1..Len(o)} = DOMAIN cache.keys.m
           /\ Len(o) > 0 => o[Len(o)] = cache.keys.last
           /\ (DOMAIN cache.m) \subseteq DOMAIN cache.keys.m
           /\ Len(o) >= MapLen(cache.m)
           /\ variant = "LRW" => DOMAIN cache.keys.m = DOMAIN cache.m

C17_Witness ==
    /\ variant = "LRU" /\ last.op = "Set"
    /\ MapLen(cache.m) = 1 /\ MapLen(cache.keys.m) = 2
    /\ cache.keys.last \notin DOMAIN cache.m

(* C18: under the non-decreasing clock the timestamps read from the head   *)
(* of the index to its tail never increase, between any two calls of       *)
(* either variant; the tail has the least timestamp, so its age is the     *)
(* greatest age in the cache.                                              *)
C18_TimestampsOrdered ==
    err = NoError =>
        LET o == Order(cache.keys)
            ts(k) == cache.keys.m[k].timestamp
        IN /\ Len(o) = MapLen(cache.keys.m)
           /\ \A i \in 1..Len(o) : \A j \in i..Len(o) : ts(o[i]) >= ts(o[j])
           /\ \A k \in DOMAIN cache.keys.m :
                 /\ ts(cache.keys.last) <= ts(k)
                 /\ sinceOldest(cache.keys, clock) >= Sub(clock, ts(k))

(* The old tail was read, became the head, and is younger than the rest    *)
C18_Witness ==
    /\ variant = "LRU" /\ last.op = "Get" /\ last.ok
    /\ MapLen(cache.keys.m) = 2
    /\ cache.keys.first = last.k
    /\ cache.keys.m[cache.keys.last].timestamp < last.now
    /\ sinceOldest(cache.keys, clock) > 0

(* ---------------------------------------------------------------------- *)
(* Two LRU instances with the same bounds under one clock: both are given  *)
(* the same calls, and twin is given further Gets of keys it has no value  *)
(* for                                                                     *)
(* ---------------------------------------------------------------------- *)
InitTwin ==
    \E maxSize \in SizeArgs, maxAge \in AgeArgs :
        LET r == NewLRUCache(maxSize, maxAge)
        IN /\ r.err = NoError
           /\ variant = "LRU"
           /\ cache = r.cache
           /\ twin = r.cache
           /\ err = r.err
           /\ clock = StartTime
           /\ last = [op |-> "New", maxSize |-> maxSize, maxAge |-> maxAge]
           /\ hist = <<>>
           /\ pc = [p \in Procs |-> "idle"]
           /\ lock = Unlocked
           /\ loc = [p \in Procs |-> NoLocals]
           /\ seq = r.cache
           /\ index = newCacheTimeMap
           /\ helper = NoHelper
           /\ call = NoFrame
           /\ ch = NoChan
           /\ send = NoFrame
           /\ recv = NoFrame

twinFrame == <<variant, err, hist, goroutineVars,
               index, helper, call, ch, send, recv>>

(* Three keys: a key without a value can then be older than a key with a   *)
(* value while a further key is written                                    *)
TwinKeys == {ZeroKey, 1, 2}

(* The calls of a twin run: Set and Get go to both instances, ExtraGet to  *)
(* twin only, Tick lets the clock advance                                  *)
TwinCalls ==
    {[op |-> "Tick", k |-> ZeroKey, v |-> ZeroVal]}
    \cup {[op |-> "Set", k |-> k, v |-> v] : k \in TwinKeys, v \in Vals}
    \cup {[op |-> o, k |-> k, v |-> ZeroVal] :
             o \in {"Get", "ExtraGet"}, k \in TwinKeys}

(* An ExtraGet reads a key twin has no value for                           *)
TwinAllowed(s, o) ==
    /\ o.op = "Tick" => s.clock < MaxTime
    /\ o.op = "ExtraGet" => o.k \notin DOMAIN s.twin.m

(* The two instances and the clock after the call o, and the keys that    *)
(* removeOldest returned in each instance during the call                  *)
TwinApply(s, o) ==
    IF o.op = "Tick"
    THEN [s EXCEPT !.clock = s.clock + 1, !.drops = <<>>, !.twinDrops = <<>>]
    ELSE IF o.op = "Set"
    THEN LET r == SetLRU(s.cache, o.k, o.v, s.clock)
             t == SetLRU(s.twin, o.k, o.v, s.clock)
         IN [s EXCEPT !.cache = r.cache, !.twin = t.cache,
                      !.drops = r.drops, !.twinDrops = t.drops]
    ELSE IF o.op = "Get"
    THEN [s EXCEPT !.cache = GetLRU(s.cache, o.k, s.clock).cache,
                   !.twin = GetLRU(s.twin, o.k, s.clock).cache,
                   !.drops = <<>>, !.twinDrops = <<>>]
    ELSE [s EXCEPT !.twin = GetLRU(s.twin, o.k, s.clock).cache,
                   !.drops = <<>>, !.twinDrops = <<>>]

(* The two instances as they are now                                       *)
TwinNow == [cache |-> cache, twin |-> twin, clock |-> clock,
            drops |-> <<>>, twinDrops |-> <<>>]

TwinCall(o) ==
    /\ TwinAllowed(TwinNow, o)
    /\ \E r \in {TwinApply(TwinNow, o)} :
          /\ cache' = r.cache
          /\ twin' = r.twin
          /\ clock' = r.clock
          /\ last' = [op |-> o.op,
                      evicted |-> (DOMAIN cache.m) \ DOMAIN r.cache.m,
                      drops |-> r.drops, twinDrops |-> r.twinDrops]
    /\ UNCHANGED twinFrame

TwinTick == TwinCall([op |-> "Tick", k |-> ZeroKey, v |-> ZeroVal])
BothSetLRU(k, v) == TwinCall([op |-> "Set", k |-> k, v |-> v])
BothGetLRU(k) == TwinCall([op |-> "Get", k |-> k, v |-> ZeroVal])
ExtraGetLRU(k) == TwinCall([op |-> "ExtraGet", k |-> k, v |-> ZeroVal])

NextTwin ==
    \/ TwinTick
    \/ \E k \in TwinKeys, v \in Vals : BothSetLRU(k, v)
    \/ \E k \in TwinKeys : BothGetLRU(k)
    \/ \E k \in TwinKeys : ExtraGetLRU(k)

SpecTwin == InitTwin /\ [][NextTwin]_vars

(* The pairs of instances that at most n further calls lead to from s0    *)
RECURSIVE TwinReach(_, _)
TwinReach(s0, n) ==
    IF n = 0 THEN {s0}
    ELSE LET before == TwinReach(s0, n - 1)
         IN before \cup
            {TwinApply(so[1], so[2]) :
                so \in {x \in before \X TwinCalls : TwinAllowed(x[1], x[2])}}

(* C12 as stated: there are two sequences of calls (here of at most four   *)
(* calls and clock steps from a pair of instances that the same calls      *)
(* led to) equal but for further Gets of keys without a value in one of    *)
(* them, after which the values of the two instances differ.               *)
C12_PhantomEvictsRealEntry ==
    \E s \in TwinReach(TwinNow, 4) : s.cache.m # s.twin.m

(* The keys that have a value, in the order of the index                   *)
Reals(c) == SelectSeq(Order(c.keys), LAMBDA k : k \in DOMAIN c.m)

(* C12 amended: however many Gets of keys without a value one of the two   *)
(* runs adds, the values of the two instances are equal after every call:  *)
(* the added Gets only add keys to the index, and the keys that have a     *)
(* value keep the same order and the same timestamps in both indexes, so   *)
(* that no entry is evicted from one instance and kept by the other.       *)
C12_ExtraGetsKeepValues ==
    /\ cache.m = twin.m
    /\ (DOMAIN cache.keys.m) \subseteq DOMAIN twin.keys.m
    /\ Reals(cache) = Reals(twin)
    /\ \A k \in DOMAIN cache.m :
          cache.keys.m[k].timestamp = twin.keys.m[k].timestamp

(* A Set drops from twin's index a key without a value and then a key with *)
(* a value, and from the reference instance that second key alone          *)
C12_Witness ==
    /\ last.op = "Set"
    /\ Len(last.twinDrops) = 2 /\ Len(last.drops) = 1
    /\ last.twinDrops[2] = last.drops[1]
    /\ last.evicted = {last.drops[1]}
    /\ last.twinDrops[1] \notin last.evicted
    /\ MapLen(cache.m) = 1 /\ cache.m = twin.m

(* ---------------------------------------------------------------------- *)
(* The recency index on its own: any sequence of updateTimeMap and         *)
(* removeOldest calls on an index made by newCacheTimeMap                  *)
(* ---------------------------------------------------------------------- *)
cacheVars == <<variant, cache, err, clock, hist, goroutineVars, twin>>

(* No cache instance                                                       *)
CacheIdle ==
    /\ variant = "LRW"
    /\ cache = NoCache
    /\ err = NoError
    /\ clock = StartTime
    /\ hist = <<>>
    /\ pc = [p \in Procs |-> "idle"]
    /\ lock = Unlocked
    /\ loc = [p \in Procs |-> NoLocals]
    /\ seq = NoCache
    /\ twin = NoCache

InitIndex ==
    /\ CacheIdle
    /\ index = newCacheTimeMap
    /\ last = [op |-> "New", pre |-> newCacheTimeMap,
               k |-> ZeroKey, t |-> ZeroTime]
    /\ helper = NoHelper
    /\ call = NoFrame
    /\ ch = NoChan
    /\ send = NoFrame
    /\ recv = NoFrame

indexFrame == <<cacheVars, helper, call, ch, send, recv>>

(* updateTimeMap(ctm, k, t); last keeps the index as it was before         *)
CallUpdateTimeMap(k, t) ==
    /\ index' = updateTimeMap(index, k, t)
    /\ last' = [op |-> "Touch", pre |-> index, k |-> k, t |-> t]
    /\ UNCHANGED indexFrame

(* removeOldest(ctm); last keeps the index as it was before and the key    *)
(* returned                                                                *)
CallRemoveOldest ==
    /\ \E r \in {removeOldest(index)} :
          /\ index' = r.ctm
          /\ last' = [op |-> "Evict", pre |-> index, k |-> r.key,
                      t |-> ZeroTime]
    /\ UNCHANGED indexFrame

NextIndex ==
    \/ \E k \in ScriptKeys, t \in Times : CallUpdateTimeMap(k, t)
    \/ CallRemoveOldest

SpecIndex == InitIndex /\ [][NextIndex]_vars

(* The keys of an index read from last along the prev links                *)
RECURSIVE WalkPrev(_, _, _)
WalkPrev(ctm, k, n) ==
    IF n = 0 \/ k \notin DOMAIN ctm.m THEN <<>>
    ELSE IF ctm.m[k].prev = k THEN <<k>>
    ELSE <<k>> \o WalkPrev(ctm, ctm.m[k].prev, n - 1)

Reverse(q) == [i \in 1..Len(q) |-> q[Len(q) - i + 1]]
Range(q) == {q[i] : i \in 1..Len(q)}

(* C13 as stated: what removeOldest returns for an index that is already   *)
(* empty differs from what it returns when it removes a key.               *)
C13_EmptyEvictionDistinct ==
    (last.op = "Evict" /\ MapLen(last.pre.m) > 0) =>
        last.k # removeOldest(newCacheTimeMap).key

(* C16: after any sequence of updateTimeMap and removeOldest calls on an   *)
(* empty index the list is well formed: the prev of first is first and     *)
(* the next of last is last; the walk along next from first visits every   *)
(* key once and ends at last; the walk along prev from last visits every   *)
(* key once, in the opposite order, and ends at first; a single key has    *)
(* both links on itself and is first and last.                             *)
C16_WellFormed ==
    LET n == MapLen(index.m)
        fwd == WalkNext(index, index.first, n)
        bwd == WalkPrev(index, index.last, n)
    IN /\ n = 0 => (fwd = <<>> /\ bwd = <<>>)
       /\ n > 0 =>
             /\ index.first \in DOMAIN index.m
             /\ index.last \in DOMAIN index.m
             /\ index.m[index.first].prev = index.first
             /\ index.m[index.last].next = index.last
             /\ Len(fwd) = n /\ Range(fwd) = DOMAIN index.m
             /\ fwd[n] = index.last
             /\ Len(bwd) = n /\ Range(bwd) = DOMAIN index.m
             /\ bwd[n] = index.first
             /\ bwd = Reverse(fwd)
             /\ \A i \in 1..n :
                   /\ i > 1 => index.m[fwd[i]].prev = fwd[i - 1]
                   /\ i < n => index.m[fwd[i]].next = fwd[i + 1]
       /\ n = 1 =>
             \E k \in DOMAIN index.m :
                 /\ index.first = k /\ index.last = k
                 /\ index.m[k].prev = k /\ index.m[k].next = k

(* The tail of three keys was touched and is now first                     *)
C16_Witness ==
    /\ last.op = "Touch" /\ MapLen(last.pre.m) = 3
    /\ last.pre.last = last.k
    /\ index.first = last.k /\ index.last # last.k
    /\ MapLen(index.m) = 3

(* C19 as stated: the map of the index is empty exactly when first and     *)
(* last both hold the zero key.                                            *)
C19_EmptyIffSentinel ==
    (MapLen(index.m) = 0) <=> (index.first = ZeroKey /\ index.last = ZeroKey)

(* The key set and the order of the keys other than k                      *)
Without(q, k) == SelectSeq(q, LAMBDA x : x # k)

(* C20: updateTimeMap(ctm, k, t) on a well formed index, whether k is new, *)
(* first, last or in between: k is first with timestamp t; the keys are    *)
(* the former keys and k; the other keys keep their order and their        *)
(* timestamps; last changes only when the index was empty (it becomes k)   *)
(* or k was the last of two or more keys (it becomes the key that was      *)
(* before k).  When k is already first only its timestamp changes.         *)
C20_Touch ==
    last.op = "Touch" =>
        LET pre == last.pre
            k == last.k
        IN /\ index.first = k
           /\ index.m[k].timestamp = last.t
           /\ DOMAIN index.m = (DOMAIN pre.m) \cup {k}
           /\ Without(Order(index), k) = Without(Order(pre), k)
           /\ Order(index)[1] = k
           /\ \A x \in (DOMAIN pre.m) \ {k} :
                 index.m[x].timestamp = pre.m[x].timestamp
           /\ index.last =
                 IF MapLen(pre.m) = 0 THEN k
                 ELSE IF pre.last = k /\ MapLen(pre.m) >= 2 THEN pre.m[k].prev
                 ELSE pre.last
           /\ (MapLen(pre.m) > 0 /\ pre.first = k) =>
                 index = [pre EXCEPT !.m[k].timestamp = last.t]

(* A key between first and last was touched                                *)
C20_Witness ==
    /\ last.op = "Touch" /\ MapLen(last.pre.m) = 3
    /\ last.k \in DOMAIN last.pre.m
    /\ last.pre.first # last.k /\ last.pre.last # last.k
    /\ index.first = last.k /\ index.last = last.pre.last
    /\ last.t > last.pre.m[last.k].timestamp

(* ---------------------------------------------------------------------- *)
(* backoff.go: the exponential backoff helper and CallWithHelper           *)
(* ---------------------------------------------------------------------- *)
(* Bounds: the greatest maxTries, the greatest jitter and the greatest      *)
(* scale given to a helper                                                 *)
MaxRetries == 2
MaxJitter == 2
MaxScale == 8

(* Durations are counted in nanoseconds, as time.Duration counts them:     *)
(* 100 ms and 50 ms below.                                                 *)
(* A scale is counted in quarters: 4 is 1.0, 7 is 1.75, 8 is 2.0; scales   *)
(* that are not a multiple of 0.25 are left out.  float64 holds a quarter  *)
(* exactly, and its product with a duration exactly while the product is   *)
(* below 2^53 ns (about 104 days), which covers every delay used here.     *)
ScaleUnit == 4

DefaultInitialDelay == 100000000
DefaultJitter == 50000000
DefaultScale == 8
DefaultMaxTries == 5

(* Scales given to SetScale, from below zero to MaxScale                   *)
ScaleArgs == (-1)..MaxScale

StopBackoff == "backoff intentionally terminated"
RetriesExhausted == "backoff maximum attempts done"
(* Any error of f that is not StopBackoff                                  *)
OtherError == "blah"

(* The values rand.Int63n(int64(max)) can return                           *)
randomDuration(max) == 0..(max - 1)

(* NewExponential; rnd is the jitter drawn for nextDelay                   *)
NewExponential(rnd) ==
    [initialDelay |-> DefaultInitialDelay,
     jitter |-> DefaultJitter,
     scale |-> DefaultScale,
     maxTries |-> DefaultMaxTries,
     currentTries |-> 0,
     nextDelay |-> DefaultInitialDelay + rnd]

(* scaled := float64(e.nextDelay) * e.scale; time.Duration(scaled) drops   *)
(* the fraction of a nanosecond, rounding toward zero also when the delay  *)
(* is negative; rnd is the jitter drawn.                                   *)
updateDelay(e, rnd) ==
    LET p == e.nextDelay * e.scale
        scaled == IF p >= 0 THEN p \div ScaleUnit
                  ELSE -((-p) \div ScaleUnit)
    IN [e EXCEPT !.nextDelay = scaled + rnd]

(* Variant of Again that allows one try more                               *)
Again_OneMore(e, rnd) ==
    IF e.currentTries > e.maxTries
    THEN [e |-> e, rv |-> FALSE, slept |-> 0]
    ELSE LET e1 == [e EXCEPT !.currentTries = e.currentTries + 1]
         IN [e |-> updateDelay(e1, rnd), rv |-> TRUE,
             slept |-> IF e.nextDelay > 0 THEN e.nextDelay ELSE 0]

(* Again: the helper afterwards, the result and the time slept             *)
(* (time.Sleep returns at once for a delay that is not positive)           *)
Again(e, rnd) ==
    IF e.currentTries >= e.maxTries
    THEN [e |-> e, rv |-> FALSE, slept |-> 0]
    ELSE LET e1 == [e EXCEPT !.currentTries = e.currentTries + 1]
         IN [e |-> updateDelay(e1, rnd), rv |-> TRUE,
             slept |-> IF e.nextDelay > 0 THEN e.nextDelay ELSE 0]

SetRetries(e, n) == [e EXCEPT !.maxTries = n]

SetInitialDelay(e, dt, rnd) ==
    IF e.currentTries = 0
    THEN [e EXCEPT !.initialDelay = dt, !.nextDelay = dt + rnd]
    ELSE [e EXCEPT !.initialDelay = dt]

SetJitter(e, dt, rnd) ==
    IF e.currentTries = 0
    THEN [e EXCEPT !.jitter = dt, !.nextDelay = e.initialDelay + rnd]
    ELSE [e EXCEPT !.jitter = dt]

Reset(e, rnd) ==
    [e EXCEPT !.currentTries = 0, !.nextDelay = e.initialDelay + rnd]

(* SetScale: nothing unless s > 1.0 and no backoff session is under way    *)
SetScale(e, s) ==
    IF s <= ScaleUnit THEN e
    ELSE IF e.currentTries # 0 THEN e
    ELSE [e EXCEPT !.scale = s]

(* What a call of f can return: a value and nil, StopBackoff or another    *)
(* error                                                                   *)
FErrors == {NoError, StopBackoff, OtherError}

(* The frame of CallWithHelper before its first statement: errs are the    *)
(* errors f has returned, agains the results Again has returned            *)
NewCall ==
    [pc |-> "f", rv |-> ZeroVal, err |-> NoError,
     errs |-> <<>>, agains |-> <<>>, slept |-> 0,
     ret |-> [rv |-> ZeroVal, err |-> NoError]]

(* Initial delays given to SetInitialDelay, which takes any duration: one  *)
(* below zero and one above                                                *)
DelayArgs == {-3, 1}

(* A helper built as TestCallWithBackoff builds it, with an initial delay  *)
(* of DelayArgs and a jitter of at most MaxJitter ns, given a scale and    *)
(* then Reset.  The draws of NewExponential and SetInitialDelay are overwritten *)
(* by SetJitter: their least and greatest values stand for the others.     *)
InitBackoff ==
    /\ CacheIdle
    /\ index = newCacheTimeMap
    /\ last = [op |-> "none"]
    /\ ch = NoChan
    /\ send = NoFrame
    /\ recv = NoFrame
    /\ call = NewCall
    /\ \E n \in 0..MaxRetries, j \in 1..MaxJitter :
        \E r0 \in {0, DefaultJitter - 1},
           r1 \in {0, DefaultJitter - 1},
           r2 \in randomDuration(j), r3 \in randomDuration(j),
           s \in ScaleArgs, d \in DelayArgs :
          helper = Reset(SetScale(SetRetries(SetJitter(SetInitialDelay(
                             NewExponential(r0), d, r1), j, r2), n), s), r3)

backoffFrame == <<cacheVars, index, last, ch, send, recv>>

(* rv, err := f()   (lines 149 and 158)                                    *)
StepF(v, e) ==
    /\ call.pc = "f"
    /\ call' = [call EXCEPT !.rv = v, !.err = e,
                            !.errs = Append(call.errs, e), !.pc = "loop"]
    /\ UNCHANGED <<helper, backoffFrame>>

(* for err != nil; if errors.Is(err, StopBackoff) { return rv, err };      *)
(* after the loop return rv, nil                                           *)
StepLoop ==
    /\ call.pc = "loop"
    /\ call' = IF call.err = NoError
               THEN [call EXCEPT !.pc = "done",
                                 !.ret = [rv |-> call.rv, err |-> NoError]]
               ELSE IF call.err = StopBackoff
               THEN [call EXCEPT !.pc = "done",
                                 !.ret = [rv |-> call.rv, err |-> call.err]]
               ELSE [call EXCEPT !.pc = "again"]
    /\ UNCHANGED <<helper, backoffFrame>>

(* if !h.Again() { return rv, RetriesExhausted }                           *)
StepAgain ==
    /\ call.pc = "again"
    /\ \E rnd \in randomDuration(helper.jitter) :
        \E r \in {Again(helper, rnd)} :
          /\ helper' = r.e
          /\ call' = IF r.rv
                     THEN [call EXCEPT !.pc = "f",
                                       !.agains = Append(call.agains, TRUE),
                                       !.slept = call.slept + r.slept]
                     ELSE [call EXCEPT !.pc = "done",
                                       !.agains = Append(call.agains, FALSE),
                                       !.ret = [rv |-> call.rv,
                                                err |-> RetriesExhausted]]
    /\ UNCHANGED backoffFrame

(* SetScale called on the helper after the call has returned: it takes    *)
(* effect only when Again never counted a try.                             *)
StepSetScale(s) ==
    /\ call.pc = "done"
    /\ helper' = SetScale(helper, s)
    /\ call' = [call EXCEPT !.pc = "end"]
    /\ UNCHANGED backoffFrame

NextBackoff ==
    \/ \E v \in Vals, e \in FErrors : StepF(v, e)
    \/ StepLoop
    \/ StepAgain
    \/ \E s \in ScaleArgs : StepSetScale(s)

(* One goroutine runs the call; f and time.Sleep return.                   *)
SpecBackoff == InitBackoff /\ [][NextBackoff]_vars /\ WF_vars(NextBackoff)

(* C14: CallWithHelper with a helper that was just Reset and has           *)
(* maxTries = n (n >= 0): f is called at most n + 1 times and the call     *)
(* ends; it returns (value, nil) at the first call of f that returns no    *)
(* error, StopBackoff at the first call of f that returns it (Again is     *)
(* not called after it), and RetriesExhausted exactly when n + 1 calls of  *)
(* f in a row returned other errors; Again returns true the first n times  *)
(* and false after.                                                        *)
C14_CallWithHelper ==
    /\ [](LET n == helper.maxTries
              calls == Len(call.errs)
          IN /\ calls <= n + 1
             /\ \A i \in 1..(calls - 1) : call.errs[i] = OtherError
             /\ \A i \in 1..Len(call.agains) : call.agains[i] = (i <= n)
             /\ Len(call.agains) <= n + 1
             /\ helper.currentTries =
                   Cardinality({i \in 1..Len(call.agains) : call.agains[i]})
             /\ call.pc \in {"done", "end"} =>
                   /\ calls >= 1
                   /\ call.ret.err \in {NoError, StopBackoff, RetriesExhausted}
                   /\ call.ret.rv = call.rv
                   /\ (call.ret.err = NoError) <=> (call.errs[calls] = NoError)
                   /\ (call.ret.err = StopBackoff) <=>
                         (call.errs[calls] = StopBackoff)
                   /\ (call.ret.err = StopBackoff) =>
                         Len(call.agains) = calls - 1
                   /\ (call.ret.err = RetriesExhausted) <=>
                         (calls = n + 1 /\ call.errs[calls] = OtherError)
                   /\ (call.ret.err = RetriesExhausted) =>
                         (Len(call.agains) = n + 1 /\ ~call.agains[n + 1]))
    /\ <>(call.pc = "done")

(* f failed maxTries + 1 times and the retries are exhausted               *)
C14_Witness ==
    /\ call.pc = "done" /\ call.ret.err = RetriesExhausted
    /\ helper.maxTries = MaxRetries
    /\ Len(call.errs) = MaxRetries + 1
    /\ helper.currentTries = MaxRetries
    /\ call.slept > 0

(* ---------------------------------------------------------------------- *)
(* maputils.go: a map sent over an unbuffered channel                      *)
(* ---------------------------------------------------------------------- *)
(* Every map with keys of ScriptKeys and values of Vals, the empty map     *)
(* included                                                                *)
SentMaps == UNION {[d -> Vals] : d \in SUBSET ScriptKeys}

Transit(k, v) == [Key |-> k, Value |-> v]

(* make(chan Transit[K, V]): open, no buffer.  log is the history of the   *)
(* items handed over and closes the number of calls of close.              *)
Channel(m) == [closed |-> FALSE, closes |-> 0, log |-> <<>>]

closeChan_Noop(c) == c
(* close(c)                                                                *)
closeChan(c) == [c EXCEPT !.closed = TRUE, !.closes = @ + 1]

(* go Send(want, ch); got := Receive(ch): Send is at the head of its loop  *)
(* with count = 0, Receive has yet to make its map.                        *)
InitSend ==
    /\ CacheIdle
    /\ index = newCacheTimeMap
    /\ last = [op |-> "none"]
    /\ helper = NoHelper
    /\ call = NoFrame
    /\ \E m \in SentMaps :
        /\ ch = Channel(m)
        /\ send = [pc |-> "range", m |-> m, todo |-> DOMAIN m,
                   item |-> Transit(ZeroKey, ZeroVal), count |-> 0,
                   ret |-> -1]
        /\ recv = [pc |-> "make", m |-> EmptyMap,
                   item |-> Transit(ZeroKey, ZeroVal), ret |-> NoCache]

sendFrame == <<cacheVars, index, last, helper, call>>

(* for k, v := range m: the next entry in an order Go does not fix, each   *)
(* entry once; the loop ends when none is left.                            *)
SendRange ==
    /\ send.pc = "range"
    /\ \/ /\ send.todo = {}
          /\ send' = [send EXCEPT !.pc = "close"]
       \/ \E k \in send.todo :
            send' = [send EXCEPT !.pc = "send",
                                 !.todo = @ \ {k},
                                 !.item = Transit(k, send.m[k])]
    /\ UNCHANGED <<ch, recv, sendFrame>>

(* c <- item meets for item := range c: the channel has no buffer, so the  *)
(* send completes when the receiver takes the item.                        *)
Handover ==
    /\ send.pc = "send"
    /\ recv.pc = "range"
    /\ ~ch.closed
    /\ ch' = [ch EXCEPT !.log = Append(@, send.item)]
    /\ send' = [send EXCEPT !.pc = "count"]
    /\ recv' = [recv EXCEPT !.pc = "store", !.item = send.item]
    /\ UNCHANGED sendFrame

(* count++                                                                 *)
SendCount ==
    /\ send.pc = "count"
    /\ send' = [send EXCEPT !.pc = "range", !.count = @ + 1]
    /\ UNCHANGED <<ch, recv, sendFrame>>

SendClose ==
    /\ send.pc = "close"
    /\ ch' = closeChan(ch)
    /\ send' = [send EXCEPT !.pc = "return"]
    /\ UNCHANGED <<recv, sendFrame>>

(* return count                                                            *)
SendReturn ==
    /\ send.pc = "return"
    /\ send' = [send EXCEPT !.pc = "done", !.ret = send.count]
    /\ UNCHANGED <<ch, recv, sendFrame>>

(* m := make(map[K]V)                                                      *)
ReceiveMake ==
    /\ recv.pc = "make"
    /\ recv' = [recv EXCEPT !.pc = "range", !.m = EmptyMap]
    /\ UNCHANGED <<ch, send, sendFrame>>

(* m[item.Key] = item.Value                                                *)
ReceiveStore ==
    /\ recv.pc = "store"
    /\ recv' = [recv EXCEPT !.pc = "range",
                            !.m = MapPut(@, recv.item.Key, recv.item.Value)]
    /\ UNCHANGED <<ch, send, sendFrame>>

(* range c ends on the closed channel                                      *)
ReceiveClosed ==
    /\ recv.pc = "range"
    /\ ch.closed
    /\ recv' = [recv EXCEPT !.pc = "return"]
    /\ UNCHANGED <<ch, send, sendFrame>>

(* return m                                                                *)
ReceiveReturn ==
    /\ recv.pc = "return"
    /\ recv' = [recv EXCEPT !.pc = "done", !.ret = recv.m]
    /\ UNCHANGED <<ch, send, sendFrame>>

NextSend ==
    \/ SendRange
    \/ Handover
    \/ SendCount
    \/ SendClose
    \/ SendReturn
    \/ ReceiveMake
    \/ ReceiveStore
    \/ ReceiveClosed
    \/ ReceiveReturn

(* Both goroutines are scheduled while they can run.                       *)
SpecSend == InitSend /\ [][NextSend]_vars /\ WF_vars(NextSend)

(* C15: Send(m, c) run concurrently with Receive(c) on a channel of        *)
(* Channel: both end; every pair of m is handed over exactly once; c is    *)
(* closed once, after the last pair; Send returns len(m); Receive returns  *)
(* a map equal to m, the empty map included.                               *)
C15_SendReceive ==
    /\ [](LET m == send.m
              log == ch.log
          IN /\ \A i \in 1..Len(log) :
                   /\ log[i].Key \in DOMAIN m
                   /\ log[i].Value = m[log[i].Key]
                   /\ \A j \in 1..Len(log) : log[i].Key = log[j].Key => i = j
             /\ ch.closes <= 1
             /\ ch.closed <=> (ch.closes = 1)
             /\ ch.closed => Len(log) = MapLen(m)
             /\ send.pc = "done" =>
                   /\ send.ret = MapLen(m)
                   /\ ch.closes = 1
                   /\ Len(log) = MapLen(m)
             /\ recv.pc = "done" =>
                   /\ recv.ret = m
                   /\ ch.closed)
    /\ <>[](send.pc = "done" /\ recv.pc = "done")

(* a map of every key went across and both calls returned                  *)
C15_Witness ==
    /\ send.pc = "done" /\ recv.pc = "done"
    /\ DOMAIN send.m = ScriptKeys
    /\ send.ret = MapLen(send.m)
    /\ recv.ret = send.m
    /\ Len(ch.log) = Cardinality(ScriptKeys)
    /\ \E k \in ScriptKeys : send.m[k] # ZeroVal

(* ---------------------------------------------------------------------- *)
(* removeOldest on the index on its own                                    *)
(* ---------------------------------------------------------------------- *)
(* C21: removeOldest on a well formed index that holds keys removes the    *)
(* key that was last and returns it; the new last is the key before it,    *)
(* whose next link now points at itself; first, the other keys, their      *)
(* other links and all timestamps are as before; when the key removed was  *)
(* the only one, first and last are the zero key.  On an empty index it    *)
(* returns the zero key and leaves the index as it was.                    *)
C21_RemoveOldest ==
    last.op = "Evict" =>
        LET pre == last.pre
            n == MapLen(pre.m)
            old == pre.last
        IN /\ n = 0 => (last.k = ZeroKey /\ index = pre)
           /\ n > 0 =>
                 /\ last.k = old
                 /\ DOMAIN index.m = (DOMAIN pre.m) \ {old}
                 /\ \A x \in DOMAIN index.m :
                       /\ index.m[x].timestamp = pre.m[x].timestamp
                       /\ index.m[x].prev = pre.m[x].prev
                       /\ index.m[x].next =
                             IF x = pre.m[old].prev THEN x ELSE pre.m[x].next
           /\ n > 1 =>
                 /\ index.last = pre.m[old].prev
                 /\ index.last # old
                 /\ index.m[index.last].next = index.last
                 /\ index.first = pre.first
           /\ n = 1 => (index.first = ZeroKey /\ index.last = ZeroKey)

(* The last of three keys was removed                                      *)
C21_Witness ==
    /\ last.op = "Evict" /\ MapLen(last.pre.m) = 3
    /\ last.k = last.pre.last /\ last.k # ZeroKey
    /\ MapLen(index.m) = 2
    /\ index.last = last.pre.m[last.k].prev

(* ---------------------------------------------------------------------- *)
(* The two passes of the eviction procedure in either order                *)
(* ---------------------------------------------------------------------- *)
(* The cache at the call of lrwAge in SetLRW: the value is stored and the  *)
(* key is touched                                                          *)
lrwBeforeAge(lrw, k, v, now) ==
    LET c1 == [lrw EXCEPT !.m = MapPut(lrw.m, k, v)]
    IN [c1 EXCEPT !.keys = updateTimeMap(c1.keys, k, now)]

lruBeforeAge(lru, k, v, now) ==
    LET c1 == [lru EXCEPT !.m = MapPut(lru.m, k, v)]
    IN [c1 EXCEPT !.keys = updateTimeMap(c1.keys, k, now)]

(* The passes of lrwAge and lruAge run the other way round: the size loop  *)
(* first, the age loop second                                              *)
lrwAgeSwapped(lrw, now) ==
    LET z == lrwSizePass(lrw)
        a == lrwAgePass(z.cache, now)
    IN [cache |-> a.cache, drops |-> z.drops \o a.drops]

lruAgeSwapped(lru, now) ==
    LET z == lruSizePass(lru)
        a == lruAgePass(z.cache, now)
    IN [cache |-> a.cache, drops |-> z.drops \o a.drops]

(* A cache of either variant; twin is to hold what the swapped passes      *)
(* leave of the cache of the latest Set.                                   *)
InitOrder ==
    \E var \in Variants, maxSize \in SizeArgs, maxAge \in AgeArgs :
        LET r == New(var, maxSize, maxAge)
        IN /\ variant = var
           /\ cache = r.cache
           /\ twin = r.cache
           /\ err = r.err
           /\ clock = StartTime
           /\ last = [op |-> "New", maxSize |-> maxSize, maxAge |-> maxAge]
           /\ hist = <<>>
           /\ pc = [p \in Procs |-> "idle"]
           /\ lock = Unlocked
           /\ loc = [p \in Procs |-> NoLocals]
           /\ seq = r.cache
           /\ index = newCacheTimeMap
           /\ helper = NoHelper
           /\ call = NoFrame
           /\ ch = NoChan
           /\ send = NoFrame
           /\ recv = NoFrame

orderFrame ==
    <<variant, err, hist, goroutineVars, index, helper, call, ch, send, recv>>

OrderTick ==
    /\ clock < MaxTime
    /\ clock' = clock + 1
    /\ UNCHANGED <<cache, twin, last, orderFrame>>

(* Set as the code runs it; twin takes the cache the swapped passes leave  *)
(* when run from the same point.                                           *)
OrderSet(k, v) ==
    /\ err = NoError
    /\ \E c2 \in {IF variant = "LRW" THEN lrwBeforeAge(cache, k, v, clock)
                  ELSE lruBeforeAge(cache, k, v, clock)} :
       \E r \in {IF variant = "LRW" THEN SetLRW(cache, k, v, clock)
                 ELSE SetLRU(cache, k, v, clock)} :
       \E s \in {IF variant = "LRW" THEN lrwAgeSwapped(c2, clock)
                 ELSE lruAgeSwapped(c2, clock)} :
          /\ cache' = r.cache
          /\ twin' = s.cache
          /\ last' = [op |-> "Set", k |-> k, v |-> v, now |-> clock,
                      pre |-> c2, drops |-> r.drops, swapped |-> s.drops]
    /\ UNCHANGED <<clock, orderFrame>>

OrderGet(k) ==
    /\ err = NoError
    /\ \E r \in {IF variant = "LRW" THEN GetLRW(cache, k, clock)
                 ELSE GetLRU(cache, k, clock)} :
          /\ cache' = r.cache
          /\ twin' = r.cache
          /\ last' = [op |-> "Get", k |-> k, now |-> clock,
                      rv |-> r.rv, ok |-> r.ok]
    /\ UNCHANGED <<clock, orderFrame>>

NextOrder ==
    \/ OrderTick
    \/ \E k \in TwinKeys, v \in Vals : OrderSet(k, v)
    \/ \E k \in TwinKeys : OrderGet(k)

SpecOrder == InitOrder /\ [][NextOrder]_vars

(* C22: whenever Set calls the eviction procedure, in either variant, with *)
(* any bounds and at any time, the size loop followed by the age loop      *)
(* leaves the same values, the same index and the same dropped keys as the *)
(* age loop followed by the size loop.                                     *)
C22_PassOrder ==
    last.op = "Set" =>
        /\ twin.m = cache.m
        /\ twin.keys = cache.keys
        /\ last.swapped = last.drops

(* In the read-touches variant a Set after which either pass, run first,   *)
(* drops a key, and the first pass leaves nothing for the second           *)
C22_Witness ==
    /\ last.op = "Set" /\ variant = "LRU"
    /\ cache.maxAge > 0 /\ cache.maxSize > 0
    /\ lruAgePass(last.pre, last.now).drops # <<>>
    /\ lruSizePass(last.pre).drops # <<>>
    /\ MapLen(last.pre.keys.m) > MapLen(last.pre.m)
    /\ last.drops # <<>>
    /\ twin = cache

(* The index at the i-th call of removeOldest in a run of the eviction     *)
(* procedure that started with the index ctm                               *)
RECURSIVE IndexAtDrop(_, _)
IndexAtDrop(ctm, i) ==
    IF i <= 1 THEN ctm ELSE removeOldest(IndexAtDrop(ctm, i - 1)).ctm

(* C23: in both variants, after every call every key of the values is a    *)
(* key of the index, and in the write-only-touches variant the index holds *)
(* no other key.  So the loops of the eviction procedure call removeOldest *)
(* only on an index that holds keys: every key they drop is the last key   *)
(* of the index at that call, and a value is deleted only under the key    *)
(* that was removed from the index, never under the zero key that          *)
(* removeOldest returns for an empty index.                                *)
C23_ValuesInIndex ==
    err = NoError =>
        /\ (DOMAIN cache.m) \subseteq DOMAIN cache.keys.m
        /\ variant = "LRW" => DOMAIN cache.keys.m = DOMAIN cache.m
        /\ last.op = "Set" =>
              LET n == Len(last.drops)
              IN /\ \A i \in 1..n :
                       LET ctm == IndexAtDrop(last.pre.keys, i)
                       IN /\ MapLen(ctm.m) > 0
                          /\ last.drops[i] = ctm.last
                          /\ last.drops[i] \in DOMAIN ctm.m
                 /\ cache.keys = IndexAtDrop(last.pre.keys, n + 1)
                 /\ (DOMAIN last.pre.m) \ (DOMAIN cache.m)
                       \subseteq {last.drops[i] : i \in 1..n}
                 /\ \A x \in DOMAIN cache.m : cache.m[x] = last.pre.m[x]

(* A Set of the read-touches variant dropped the zero key, which had a     *)
(* value, and a key read while absent                                      *)
C23_Witness ==
    /\ last.op = "Set" /\ variant = "LRU"
    /\ Len(last.drops) >= 2
    /\ ZeroKey \in DOMAIN last.pre.m
    /\ ZeroKey \notin DOMAIN cache.m
    /\ \E i \in 1..Len(last.drops) : last.drops[i] \notin DOMAIN last.pre.m
    /\ MapLen(cache.m) > 0

(* ---------------------------------------------------------------------- *)
(* Order of eviction                                                       *)
(* ---------------------------------------------------------------------- *)
(* C7: eviction is oldest first.  Every key a Set removes is, when it is   *)
(* removed, the last key of the index, and no key then in the index was    *)
(* touched earlier or has an older timestamp; the keys are removed in the  *)
(* order of their last touch (keys touched in the order A, B, C go A       *)
(* first, then B, then C), so the keys that stay are those touched most    *)
(* recently and no key stays while a key touched after it is removed.      *)
C7_OldestFirst ==
    last.op = "Set" =>
        LET idx0 == last.pre.keys
            ord == Order(idx0)
            n == Len(ord)
            d == last.drops
            ts(x) == idx0.m[x].timestamp
        IN /\ n = MapLen(idx0.m)
           /\ Len(d) < n
           /\ \A i \in 1..Len(d) :
                 LET ctm == IndexAtDrop(idx0, i)
                 IN /\ d[i] = ctm.last
                    /\ d[i] = ord[n - i + 1]
                    /\ Order(ctm) = SubSeq(ord, 1, n - i + 1)
                    /\ \A x \in DOMAIN ctm.m : ts(x) >= ts(d[i])
           /\ (DOMAIN last.pre.m) \ (DOMAIN cache.m)
                 \subseteq {d[i] : i \in 1..Len(d)}
           /\ Order(cache.keys) = SubSeq(ord, 1, n - Len(d))
           /\ \A x \in DOMAIN cache.keys.m : \A i \in 1..Len(d) :
                 ts(x) >= ts(d[i])

(* Three keys were touched one after the other and all had values; the Set *)
(* of the third removed the first and then the second                      *)
C7_Witness ==
    /\ last.op = "Set" /\ Len(last.drops) = 2
    /\ MapLen(last.pre.keys.m) = 3 /\ MapLen(last.pre.m) = 3
    /\ Order(last.pre.keys) = <<last.k, last.drops[2], last.drops[1]>>
    /\ DOMAIN cache.m = {last.k}
    /\ Order(cache.keys) = <<last.k>>

(* ---------------------------------------------------------------------- *)
(* Bounds of the cache                                                     *)
(* ---------------------------------------------------------------------- *)
(* C24 as stated: every cache a constructor returns without error has the  *)
(* size pass (maxSize > 0) or the age pass (maxAge > 0) of the eviction    *)
(* procedure enabled, negative maxAge included.                            *)
C24_SomePassEnabled ==
    (err = NoError /\ cache # NoCache) =>
        (cache.maxSize > 0 \/ cache.maxAge > 0)

(* C25 as stated: in the read-touches variant with maxSize > 0 the index   *)
(* holds at most maxSize keys after any Set or Get.                        *)
C25_IndexBounded ==
    (err = NoError /\ variant = "LRU" /\ last.op \in {"Set", "Get"}
        /\ cache.maxSize > 0)
        => MapLen(cache.keys.m) <= cache.maxSize

====
